---- MODULE Spec2Model ----
(***************************************************************************)
(* notion2memrise: one reconciliation run of src/handlers.py against the   *)
(* Memrise course driven by src/memrise.py.                                *)
(*                                                                         *)
(* A DataFrame is a sequence of rows; a row is a function from column      *)
(* names to cell values.  The pandas missing value (NaN / NaT / None) is   *)
(* NULL.  Timestamps are integers (1 is the oldest).  The course is a      *)
(* sequence of levels, each a sequence of rows holding the text that the   *)
(* edit page shows.                                                        *)
(***************************************************************************)
EXTENDS Integers, Sequences, FiniteSets, TLC

\* NaN in a text column, NaT in "date modified", a missing "cell id".
NULL == "NaN"
NaT == 0

(***************************** bounds **************************************)
\* The source snapshot holds cell ids 1..MaxSrc; the course may also hold
\* the cell id MaxSrc + 1, which the source never has.
MaxSrc == 2
\* Number of records in the course before the run.
MaxTgt == 2
\* Timestamps are 1..MaxDate.
MaxDate == 2
\* Number of levels of the course before the run.
MaxLevels == 1

(************************* program constants ******************************)
LEVEL_WORD_LIMIT == 20

\* The columns of src/constants.py that the model carries: the four
\* not-null columns and one optional column ("Tags").
COL_LIST == <<"French", "English", "cell id", "Tags", "date modified">>
NOT_NULL_COL_LIST == <<"French", "English", "date modified", "cell id">>
COL_ORDER_LIST == <<"French", "cell id", "action", "success", "error">>

\* Columns whose cells are integers in the model; every other cell is text.
IntCols == {"cell id", "date modified"}

Range(s) == {s[i] : i \in DOMAIN s}

\* pd.isna of a cell of column c.
isna(c, v) == IF c \in IntCols THEN v = NaT ELSE v = NULL

(***************************** pandas **************************************)
\* df[cols] raises KeyError when a label of cols is no column of df.
HasColumns(df, cols) == \A i \in DOMAIN df : Range(cols) \subseteq DOMAIN df[i]

\* df[cols] on a frame that has the columns.
Project(df, cols) == [i \in DOMAIN df |-> [c \in Range(cols) |-> df[i][c]]]

\* Series.str.lower() on the terms of the model.
Lower(t) == CASE t = "Chat" -> "chat" [] OTHER -> t

\* The orders DataFrame.sort_values(by="date modified") may leave the rows
\* in: the default sort kind is not stable, so rows with equal timestamps
\* come out in any order.
SortedOrders(df, ascending) ==
  { p \in Permutations(DOMAIN df) :
      \A i, j \in DOMAIN df :
        i < j => IF ascending
                 THEN df[p[i]]["date modified"] <= df[p[j]]["date modified"]
                 ELSE df[p[i]]["date modified"] >= df[p[j]]["date modified"] }

Reorder(df, p) == [i \in DOMAIN df |-> df[p[i]]]

RECURSIVE Concat(_)
\* pd.concat of a sequence of frames.
Concat(dfs) == IF dfs = <<>> THEN <<>> ELSE Head(dfs) \o Concat(Tail(dfs))

\* left.merge(right, on="cell id", how="left") for frames that share no other
\* column: every left row, in order, once per right row with its cell id
\* (in right's order), or once with right's columns missing.
merge_left(left, right, rightCols) ==
  Concat([i \in DOMAIN left |->
    LET hits == SelectSeq(right, LAMBDA r : r["cell id"] = left[i]["cell id"])
    IN IF hits = <<>>
       THEN << left[i] @@ [c \in Range(rightCols) \ DOMAIN left[i] |->
                                 IF c \in IntCols THEN NaT ELSE NULL] >>
       ELSE [k \in DOMAIN hits |-> left[i] @@ hits[k]] ])

(************************ src/memrise.py: validate_input *******************)
\* no row is dropped
validate_input_no_dropna(word_df) == Project(word_df, COL_LIST)

\* line 147: word_df[COL_LIST].dropna(subset=NOT_NULL_COL_LIST)
validate_input(word_df) ==
  SelectSeq(Project(word_df, COL_LIST),
         LAMBDA r : \A c \in Range(NOT_NULL_COL_LIST) : ~isna(c, r[c]))

(************************ src/utils.py *************************************)
\* The columns of a frame. A frame is the sequence of its rows, so a frame
\* without rows carries no column here.
Columns(df) == IF df = <<>> THEN {} ELSE DOMAIN df[1]

\* The values of a row in the columns joined on.
KeyOf(r, on) == [c \in on |-> r[c]]

\* The missing value of a column.
na(c) == IF c \in IntCols THEN NaT ELSE NULL

\* The rows of df, the rows of equal key together at the place of the first.
GroupedByKey(df, on) ==
  Concat([i \in DOMAIN df |->
            IF \E j \in 1..(i - 1) : KeyOf(df[j], on) = KeyOf(df[i], on)
            THEN <<>>
            ELSE SelectSeq(df, LAMBDA r : KeyOf(r, on) = KeyOf(df[i], on))])

\* df1.merge(df2_on, on=on, how="inner") for a df2_on of distinct keys and
\* no other column: the rows of df1 whose key is in df2_on.  pandas 2.2 and
\* later leave them in df1's order; earlier versions put the rows of equal
\* key together, the keys in the order of their first row.
merge_inner(df1, df2_on, on) ==
  {SelectSeq(df1, LAMBDA r : KeyOf(r, on) \in df2_on),
   GroupedByKey(SelectSeq(df1, LAMBDA r : KeyOf(r, on) \in df2_on), on)}

\* every row of df1
semi_join_all(df1, df2, on) == {df1}

\* semi_join, lines 22-24: the frames the inner merge with the distinct keys
\* of df2 may give.
semi_join(df1, df2, on) ==
  merge_inner(df1, {KeyOf(r, on) : r \in Range(df2)}, on)

\* The suffixes merge gives to a column that both frames hold.
X(c) == c \o "_x"
Y(c) == c \o "_y"

\* One row of df1.merge(df2, on=on, how="left", indicator=True): the row r
\* of df1 with the row q of df2, shared the columns of both frames that are
\* not joined on, only2 the other columns of df2.
merged_row(r, q, shared, only2, indicator) ==
  [d \in (DOMAIN r \ shared) \cup {X(c) : c \in shared}
           \cup {Y(c) : c \in shared} \cup only2 \cup {"_merge"} |->
     CASE d = "_merge" -> indicator
       [] d \in DOMAIN r \ shared -> r[d]
       [] d \in only2 -> q[d]
       [] \E c \in shared : d = X(c) -> r[CHOOSE c \in shared : d = X(c)]
       [] OTHER -> q[CHOOSE c \in shared : d = Y(c)]]

\* df1.merge(df2, on=on, how="left", indicator=True), line 45: every row of
\* df1, in order, once per row of df2 with its key, or once with df2's
\* columns missing.
merge_left_indicator(df1, df2, on) ==
  Concat([i \in DOMAIN df1 |->
    IF \E q \in Range(df2) : KeyOf(q, on) = KeyOf(df1[i], on)
    THEN [k \in DOMAIN SelectSeq(df2, LAMBDA q : KeyOf(q, on) = KeyOf(df1[i], on)) |->
            merged_row(df1[i],
                       SelectSeq(df2, LAMBDA q : KeyOf(q, on) = KeyOf(df1[i], on))[k],
                       (Columns(df1) \cap Columns(df2)) \ on,
                       Columns(df2) \ (Columns(df1) \cup on), "both")]
    ELSE <<merged_row(df1[i], [c \in Columns(df2) |-> na(c)],
                      (Columns(df1) \cap Columns(df2)) \ on,
                      Columns(df2) \ (Columns(df1) \cup on), "left_only")>>])

\* DataFrame.drop(columns=cols)
drop(df, cols) == [i \in DOMAIN df |-> [c \in DOMAIN df[i] \ cols |-> df[i][c]]]

\* DataFrame.rename(columns={col + "_x": col for col in cols})
rename_x(df, cols) ==
  [i \in DOMAIN df |->
     [c \in (DOMAIN df[i] \ {X(d) : d \in cols})
              \cup {d \in cols : X(d) \in DOMAIN df[i]} |->
        IF c \in cols /\ X(c) \in DOMAIN df[i] THEN df[i][X(c)] ELSE df[i][c]]]

\* every row of df1
anti_join_all(df1, df2, on) == df1

\* anti_join, lines 42-53: the left_only rows of the left merge, without
\* "_merge" and the "_y" columns, the "_x" columns under df1's names.
anti_join(df1, df2, on) ==
  rename_x(
    drop(SelectSeq(merge_left_indicator(df1, df2, on),
                   LAMBDA r : r["_merge"] = "left_only"),
         {"_merge"} \cup {Y(c) : c \in (Columns(df1) \cap Columns(df2)) \ on}),
    (Columns(df1) \cap Columns(df2)) \ on)

(************************ handle_notion_duplicates *************************)
\* every valid row is kept and also reported as dropped
handle_notion_duplicates_reports_all(df) ==
  [raised |-> FALSE, notion_df |-> validate_input(df),
   res_df |-> [i \in DOMAIN validate_input(df) |->
                 [c \in Range(COL_ORDER_LIST) |->
                    CASE c = "action" -> "duplicate_drop"
                      [] c = "success" -> TRUE
                      [] c = "error" -> NULL
                      [] OTHER -> validate_input(df)[i][c]]]]

\* the rows that a later row repeats are dropped and nothing is raised
handle_notion_duplicates_no_raise(df) ==
  [raised |-> FALSE,
   notion_df |->
     SelectSeq(validate_input(df),
               LAMBDA r :
                 r["cell id"] \notin
                   {validate_input(df)[i]["cell id"] :
                      i \in {k \in DOMAIN validate_input(df) :
                               \E j \in DOMAIN validate_input(df) :
                                 /\ j > k
                                 /\ Lower(validate_input(df)[j]["French"])
                                      = Lower(validate_input(df)[k]["French"])}}),
   res_df |-> <<>>]

\* The result is [raised, notion_df, res_df].  With at least one duplicate
\* the frame of dropped rows has the columns French, cell id, action and
\* success only, so selecting COL_ORDER_LIST from it raises KeyError.
handle_notion_duplicates(df) ==
  LET notion_df == validate_input(df)
      notion_df_copy ==
        [i \in DOMAIN notion_df |->
           [notion_df[i] EXCEPT !["French"] = Lower(@)]]
      \* DataFrame.duplicated(subset=["French"], keep="last")
      duplicated(i) == \E j \in DOMAIN notion_df_copy :
                          /\ j > i
                          /\ notion_df_copy[j]["French"] = notion_df_copy[i]["French"]
      dupIdx == {i \in DOMAIN notion_df_copy : duplicated(i)}
      notion_duplicate_df ==
        LET F[i \in 0..Len(notion_df_copy)] ==
              IF i = 0 THEN <<>>
              ELSE IF i \in dupIdx THEN Append(F[i-1], notion_df_copy[i])
                   ELSE F[i-1]
        IN F[Len(notion_df_copy)]
      dupCids == {r["cell id"] : r \in Range(notion_duplicate_df)}
      kept == SelectSeq(notion_df, LAMBDA r : r["cell id"] \notin dupCids)
      duplicate_res_df ==
        [i \in DOMAIN notion_duplicate_df |->
           [c \in {"French", "cell id", "action", "success"} |->
              CASE c = "action" -> "duplicate_drop"
                [] c = "success" -> TRUE
                [] OTHER -> notion_duplicate_df[i][c]]]
  IN IF notion_duplicate_df = <<>>
     THEN [raised |-> FALSE, notion_df |-> kept, res_df |-> <<>>]
     ELSE IF HasColumns(duplicate_res_df, COL_ORDER_LIST)
          THEN [raised |-> FALSE, notion_df |-> kept,
                res_df |-> Project(duplicate_res_df, COL_ORDER_LIST)]
          ELSE [raised |-> TRUE, notion_df |-> kept, res_df |-> <<>>]

(************************ the Memrise course *******************************)
\* The text the edit page shows for a row: a missing optional value is
\* written as the empty string (update_words: str(value) if notna else "";
\* _add_bulk: DataFrame.to_csv writes NaN as an empty field).
PageRow(r) ==
  [c \in Range(COL_LIST) |->
     IF c \in IntCols THEN r[c] ELSE IF r[c] = NULL THEN "" ELSE r[c]]

\* pd.read_html reads an empty cell back as NaN.
ReadRow(t) ==
  [c \in DOMAIN t |->
     IF c \in IntCols THEN t[c] ELSE IF t[c] = "" THEN NULL ELSE t[c]]

\* get_all_words: every row of every level, in level order, as a frame.
get_all_words(lv) ==
  Concat([l \in DOMAIN lv |-> [k \in DOMAIN lv[l] |-> ReadRow(lv[l][k])]])

\* The cell ids on the course.
CourseCids(lv) == {r["cell id"] : r \in Range(get_all_words(lv))}

\* df.iloc[a:b]
Slice(df, a, b) == SubSeq(df, a + 1, IF b < Len(df) THEN b ELSE Len(df))

(************************ src/memrise.py: delete_words *********************)
\* What one call of _delete_one_word_from_db can do:
\*   "ok"      every occurrence of the cell id is deleted: (True, NaN);
\*   "missing" the wait for the search result times out, which is caught:
\*             (False, "The word doesn't exist"); this is also what happens
\*             when the course holds no such cell id;
\*   "raise"   a wait outside the try blocks times out (the search field,
\*             the page of _delete_db_page): the exception is not caught.
DeleteOutcomes == {"ok", "missing", "raise"}

DeleteRow(cid, deleted, error) ==
  ("cell id" :> cid) @@ ("deleted" :> deleted) @@ ("error" :> error)

\* One attempt: the cell id and "ok", "failed" (caught and reported) or
\* "raised" (not caught).
Tried(cid, result) == [cid |-> cid, result |-> result]

\* The result is [raised, levels, res_df, tried]: tried lists the calls of
\* _delete_one_word_from_db.
delete_words(lv, word_ids, out) ==
  LET F[k \in 0..Len(word_ids)] ==
        IF k = 0
        THEN [raised |-> FALSE, levels |-> lv, res_df |-> <<>>, tried |-> <<>>]
        ELSE LET s == F[k-1]
                 cell_id == word_ids[k]
             IN IF s.raised THEN s
                ELSE IF out[k] = "raise"
                THEN [s EXCEPT !.raised = TRUE, !.tried = Append(@, Tried(cell_id, "raised"))]
                ELSE IF out[k] = "ok" /\ cell_id \in CourseCids(s.levels)
                THEN [raised |-> FALSE,
                      levels |-> [l \in DOMAIN s.levels |->
                                    SelectSeq(s.levels[l],
                                           LAMBDA r : r["cell id"] # cell_id)],
                      res_df |-> Append(s.res_df, DeleteRow(cell_id, TRUE, NULL)),
                      tried |-> Append(s.tried, Tried(cell_id, "ok"))]
                ELSE [s EXCEPT
                        !.res_df = Append(@, DeleteRow(cell_id, FALSE,
                                                       "The word doesn't exist")),
                        !.tried = Append(@, Tried(cell_id, "failed"))]
  IN F[Len(word_ids)]

\* A ledger frame from a result frame merged with the words: the columns
\* COL_ORDER_LIST, "success" being the result's flag column.
LedgerRows(merged, flag, action) ==
  [i \in DOMAIN merged |->
     [c \in Range(COL_ORDER_LIST) |->
        CASE c = "action" -> action
          [] c = "success" -> merged[i][flag]
          [] OTHER -> merged[i][c]]]

\* click_save_changes either returns or raises (its waits are not caught).
SaveOutcomes == {"ok", "raise"}

(************************ handle_deleted_from_notion ***********************)
\* lines 138-155: the result d of delete_words is merged with the words and
\* the changes are saved.
deleted_ledger(deleted_from_notion_df, d, save) ==
  IF d.raised
  THEN [raised |-> TRUE, levels |-> d.levels, res_df |-> <<>>, tried |-> d.tried]
  ELSE [raised |-> save = "raise", levels |-> d.levels,
        res_df |-> LedgerRows(merge_left(d.res_df, deleted_from_notion_df, COL_LIST),
                              "deleted", "delete"),
        tried |-> d.tried]

CellIds(df) == [i \in DOMAIN df |-> df[i]["cell id"]]

\* The result is [raised, levels, res_df, tried].
handle_deleted_from_notion(lv, df, out, save) ==
  IF validate_input(df) = <<>>
  THEN [raised |-> FALSE, levels |-> lv, res_df |-> <<>>, tried |-> <<>>]
  ELSE deleted_ledger(validate_input(df),
                      delete_words(lv, CellIds(validate_input(df)), out), save)

(************************ src/memrise.py: update_words *********************)
\* What the update of one row can do (every wait of it is inside the try):
\*   "ok"      every cell of the first row showing the cell id is rewritten;
\*   "timeout" the cell id is not found in time (TimeoutException, caught),
\*             which is also what happens when the course does not hold it;
\*   "error"   another exception after the first cell ("French") was
\*             rewritten (caught): the row is left partly updated.
UpdateOutcomes == {"ok", "timeout", "error"}

\* What the calls around the loop can do: return, or raise before the first
\* row ("before": driver.get, cell_col_to_xpath_predicate), or raise in the
\* closing click_save_changes ("save").  None of them is caught.
Faults == {"none", "before", "save"}

UpdateRow(cid, updated, error) ==
  ("cell id" :> cid) @@ ("updated" :> updated) @@ ("error" :> error)

\* The place [l, k] (level, row) of the first row, in page order, that shows
\* cell_id.
FirstShowing(lv, cell_id) ==
  LET ls == {l \in DOMAIN lv : \E k \in DOMAIN lv[l] : lv[l][k]["cell id"] = cell_id}
      l0 == CHOOSE l \in ls : \A m \in ls : l <= m
      ks == {k \in DOMAIN lv[l0] : lv[l0][k]["cell id"] = cell_id}
  IN [l |-> l0, k |-> CHOOSE k \in ks : \A m \in ks : k <= m]

\* The result is [raised, levels, res_df, tried].
update_words(lv, df, out, fault) ==
  LET word_df == validate_input(df)
      F[k \in 0..Len(word_df)] ==
        IF k = 0
        THEN [levels |-> lv, res_df |-> <<>>, tried |-> <<>>]
        ELSE LET s == F[k-1]
                 row == word_df[k]
                 cell_id == row["cell id"]
                 found == cell_id \in CourseCids(s.levels)
             IN IF out[k] = "ok" /\ found
                THEN [levels |-> [s.levels EXCEPT
                          ![FirstShowing(s.levels, cell_id).l]
                           [FirstShowing(s.levels, cell_id).k] =
                             [c \in DOMAIN @ |->
                                IF c = "cell id" THEN @[c] ELSE PageRow(row)[c]]],
                      res_df |-> Append(s.res_df, UpdateRow(cell_id, TRUE, NULL)),
                      tried |-> Append(s.tried, Tried(cell_id, "ok"))]
                ELSE IF out[k] = "error" /\ found
                THEN [levels |-> [s.levels EXCEPT
                          ![FirstShowing(s.levels, cell_id).l]
                           [FirstShowing(s.levels, cell_id).k]["French"] =
                             PageRow(row)["French"]],
                      res_df |-> Append(s.res_df,
                                        UpdateRow(cell_id, FALSE, "WebDriverException")),
                      tried |-> Append(s.tried, Tried(cell_id, "failed"))]
                ELSE [levels |-> s.levels,
                      res_df |-> Append(s.res_df,
                          UpdateRow(cell_id, FALSE,
                            "TimeoutException: Word not found within 10 seconds")),
                      tried |-> Append(s.tried, Tried(cell_id, "failed"))]
  IN IF fault = "before"
     THEN [raised |-> TRUE, levels |-> lv, res_df |-> <<>>, tried |-> <<>>]
     ELSE F[Len(word_df)] @@ [raised |-> fault = "save"]

(************************ handle_updated_from_notion ***********************)
\* lines 182-198: the result u of update_words is merged with the words.
updated_ledger(update_from_notion_df, u) ==
  IF u.raised
  THEN [raised |-> TRUE, levels |-> u.levels, res_df |-> <<>>, tried |-> u.tried]
  ELSE [raised |-> FALSE, levels |-> u.levels,
        res_df |-> LedgerRows(merge_left(u.res_df, update_from_notion_df, COL_LIST),
                              "updated", "update"),
        tried |-> u.tried]

\* The result is [raised, levels, res_df, tried].
handle_updated_from_notion(lv, df, out, fault) ==
  IF validate_input(df) = <<>>
  THEN [raised |-> FALSE, levels |-> lv, res_df |-> <<>>, tried |-> <<>>]
  ELSE updated_ledger(validate_input(df),
                      update_words(lv, validate_input(df), out, fault))

(************************ src/memrise.py: add_words ************************)
\* What the check of one word after a bulk add can find:
\*   "ok"      the word is on the page: it was added;
\*   "timeout" the word is not found in time (TimeoutException, caught): it
\*             was not added;
\*   "error"   another exception (caught): it was not added.
AddOutcomes == {"ok", "timeout", "error"}

AddRow(cid, added, error) ==
  ("cell id" :> cid) @@ ("added" :> added) @@ ("error" :> error)

\* _add_bulk of word_df, the rows base+1.. of the pending frame, into level
\* level_id: the words found on the page afterwards are the ones added.
\* The result is [levels, res_df].
add_bulk(lv, level_id, word_df, out, base) ==
  [levels |-> [lv EXCEPT ![level_id] =
       @ \o Project(SelectSeq([i \in DOMAIN word_df |->
                               PageRow(word_df[i]) @@ ("o" :> out[base + i])],
                           LAMBDA x : x["o"] = "ok"),
                    COL_LIST)],
   res_df |-> [i \in DOMAIN word_df |->
                 AddRow(word_df[i]["cell id"], out[base + i] = "ok",
                        CASE out[base + i] = "ok" -> NULL
                          [] out[base + i] = "timeout" ->
                             "TimeoutException: Word not found within 5 seconds"
                          [] OTHER -> "WebDriverException")]]

\* The state of add_words is [i, level_word_count, levels, res_df, bulks]:
\* bulks lists, per _add_bulk call in order, [level, new, tried]: the level it
\* went to, whether that level was created for it, and the words submitted.
bulk_done(s, level_id, new, batch, r) ==
  [i |-> s.i,
   level_word_count |-> Len(s.levels[level_id])
                          + Len(SelectSeq(r.res_df, LAMBDA x : x["added"])),
   levels |-> r.levels,
   res_df |-> s.res_df \o r.res_df,
   bulks |-> Append(s.bulks,
              [level |-> level_id, new |-> new,
               tried |-> [i \in DOMAIN batch |->
                            Tried(batch[i]["cell id"],
                                  IF r.res_df[i]["added"] THEN "ok" ELSE "failed")]])]

\* One _add_bulk call of add_words, with word_df.iloc[a:b].
add_words_bulk(s, word_df, out, level_id, a, b, new) ==
  bulk_done(s, level_id, new, Slice(word_df, a, b),
            add_bulk(s.levels, level_id, Slice(word_df, a, b), out, a))

\* every level below the limit is filled up to the limit, not only an empty one
loop_step_fill_partial(s, level_id, word_df, out) ==
  IF Len(s.levels[level_id]) < LEVEL_WORD_LIMIT /\ s.i < Len(word_df)
  THEN [add_words_bulk(s, word_df, out, level_id, s.i,
                       s.i + (LEVEL_WORD_LIMIT - Len(s.levels[level_id])), FALSE)
          EXCEPT !.i = s.i + (LEVEL_WORD_LIMIT - Len(s.levels[level_id]))]
  ELSE [s EXCEPT !.level_word_count = Len(s.levels[level_id])]

\* lines 748-763: one turn of the loop over the levels of the page
loop_step(s, level_id, word_df, out) ==
  IF Len(s.levels[level_id]) = 0 /\ s.i < Len(word_df)
  THEN [add_words_bulk(s, word_df, out, level_id, s.i, s.i + LEVEL_WORD_LIMIT, FALSE)
          EXCEPT !.i = s.i + LEVEL_WORD_LIMIT]
  ELSE [s EXCEPT !.level_word_count = Len(s.levels[level_id])]

\* the levels are visited from the last to the first
add_words_loop_backwards(lv, word_df, out) ==
  LET Loop[k \in 0..Len(lv)] ==
        IF k = 0
        THEN [i |-> 0, level_word_count |-> 0,
              levels |-> lv, res_df |-> <<>>, bulks |-> <<>>]
        ELSE loop_step(Loop[k-1], Len(lv) + 1 - k, word_df, out)
  IN Loop[Len(lv)]

\* lines 746-763
add_words_loop(lv, word_df, out) ==
  LET Loop[k \in 0..Len(lv)] ==
        IF k = 0
        THEN [i |-> 0, level_word_count |-> 0,
              levels |-> lv, res_df |-> <<>>, bulks |-> <<>>]
        ELSE loop_step(Loop[k-1], k, word_df, out)
  IN Loop[Len(lv)]

\* the last level is never filled
fill_last_never(s, word_df, out) == s

\* the last level gets a whole chunk, whatever it holds
fill_last_whole_chunk(s, word_df, out) ==
  IF Len(s.levels) > 0 /\ s.i < Len(word_df)
  THEN [add_words_bulk(s, word_df, out, Len(s.levels), s.i,
                       s.i + LEVEL_WORD_LIMIT, FALSE)
          EXCEPT !.i = s.i + LEVEL_WORD_LIMIT]
  ELSE s

\* lines 765-773: the last level is filled if it is not full
fill_last(s, word_df, out) ==
  IF /\ Len(s.levels) > 0
     /\ s.level_word_count < LEVEL_WORD_LIMIT
     /\ s.i < Len(word_df)
  THEN [add_words_bulk(s, word_df, out, Len(s.levels), s.i,
                       s.i + (LEVEL_WORD_LIMIT - s.level_word_count), FALSE)
          EXCEPT !.i = s.i + (LEVEL_WORD_LIMIT - s.level_word_count)]
  ELSE s

\* no level is created: the batch goes to the last level there is
new_level_step_no_level(s, word_df, out, a) ==
  add_words_bulk(s, word_df, out, Len(s.levels), a, a + LEVEL_WORD_LIMIT, TRUE)

\* lines 777-794: a level is created and one batch is added to it
new_level_step(s, word_df, out, a) ==
  add_words_bulk([s EXCEPT !.levels = Append(@, <<>>)], word_df, out,
                 Len(s.levels) + 1, a, a + LEVEL_WORD_LIMIT, TRUE)

\* lines 774-794: new levels, LEVEL_WORD_LIMIT words each
new_levels(s, word_df, out) ==
  LET rest == IF s.i < Len(word_df) THEN Len(word_df) - s.i ELSE 0
      numNew == (rest + LEVEL_WORD_LIMIT - 1) \div LEVEL_WORD_LIMIT
      New[j \in 0..numNew] ==
        IF j = 0 THEN s
        ELSE new_level_step(New[j-1], word_df, out,
                            s.i + (j - 1) * LEVEL_WORD_LIMIT)
  IN New[numNew]

add_result(s) ==
  [raised |-> FALSE, levels |-> s.levels, res_df |-> s.res_df, bulks |-> s.bulks]

\* The result is [raised, levels, res_df, bulks].
add_words(lv, df, out, fault) ==
  IF validate_input(df) = <<>>
  THEN [raised |-> FALSE, levels |-> lv, res_df |-> <<>>, bulks |-> <<>>]
  \* the wait for the levels of the page times out when there is none
  ELSE IF fault = "before" \/ Len(lv) = 0
  THEN [raised |-> TRUE, levels |-> lv, res_df |-> <<>>, bulks |-> <<>>,
        error |-> "TimeoutException"]
  ELSE add_result(
         new_levels(
           fill_last(add_words_loop(lv, validate_input(df), out),
                     validate_input(df), out),
           validate_input(df), out))

(************************ handle_new_from_notion ***************************)
\* lines 222-237: the result a of add_words is merged with the words and the
\* changes are saved.
added_ledger(new_from_notion_df, a, fault) ==
  IF a.raised
  THEN [raised |-> TRUE, levels |-> a.levels, res_df |-> <<>>, bulks |-> a.bulks]
  ELSE [raised |-> fault = "save", levels |-> a.levels,
        res_df |-> LedgerRows(merge_left(a.res_df, new_from_notion_df, COL_LIST),
                              "added", "add"),
        bulks |-> a.bulks]

\* The result is [raised, levels, res_df, bulks].
handle_new_from_notion(lv, df, out, fault) ==
  IF validate_input(df) = <<>>
  THEN [raised |-> FALSE, levels |-> lv, res_df |-> <<>>, bulks |-> <<>>]
  ELSE added_ledger(validate_input(df),
                    add_words(lv, validate_input(df), out, fault), fault)

(***************************** state ***************************************)
VARIABLES
  notion_src,              \* the source snapshot handed to notion2memrise
  levels,                  \* the course on Memrise
  pc,                      \* where notion2memrise is
  notion_df,               \* notion2memrise's notion_df
  deduped_df,              \* notion_df as handle_notion_duplicates returned it
  memrise_df,              \* notion2memrise's memrise_df
  fetched,                 \* whether get_all_words has returned
  global_res_df,           \* the ledger of the run
  persisted,               \* the ledgers written to logs/, in order
  called,                  \* the handlers called so far
  deleted_from_notion_df,  \* the frame passed to handle_deleted_from_notion
  update_from_notion_df,   \* the frame passed to handle_updated_from_notion
  new_from_notion_df,      \* the frame passed to handle_new_from_notion
  attempts,                \* the mutation attempts made, in order
  fn_args,                 \* the arguments of a function called on its own
  fn_ret                   \* what that call returned

vars == <<notion_src, levels, pc, notion_df, deduped_df, memrise_df, fetched,
          global_res_df, persisted, called, deleted_from_notion_df,
          update_from_notion_df, new_from_notion_df, attempts, fn_args, fn_ret>>

(***************************** inputs **************************************)
\* The terms a record of cell id c may carry: a pair of cell ids can hold
\* the same term, two terms that differ in case only, or different terms.
TermsOf(c) == IF c % 2 = 1 THEN {"chat", "eau"} ELSE {"Chat", "eau"}

\* The optional column is empty for one of the terms.
TagOf(t) == IF t = "eau" THEN NULL ELSE "noun"

Row(french, english, cid, tags, date) ==
  ("French" :> french) @@ ("English" :> english) @@ ("cell id" :> cid)
    @@ ("Tags" :> tags) @@ ("date modified" :> date)

\* The rows the source may hold for cell id c: complete rows, and a row
\* without its translation.
SourceRows(c) ==
  {Row(t, "en", c, TagOf(t), d) : t \in TermsOf(c), d \in 1..MaxDate}
    \cup {Row("eau", NULL, c, NULL, 1)}

RECURSIVE SourceSnapshots(_)
\* Cell ids are unique in the source; the rows come in any timestamp order.
SourceSnapshots(n) ==
  IF n = 0 THEN {<<>>}
  ELSE {s \o o : s \in SourceSnapshots(n - 1),
                 o \in {<<>>} \cup {<<r>> : r \in SourceRows(n)}}

\* The rows a level may show: complete rows, written as the page shows them.
\* The course may hold a cell id several times.
CourseRows ==
  {PageRow(Row(t, "en", c, TagOf(t), d)) :
     t \in {"chat", "Chat", "eau"}, c \in 1..MaxSrc + 1, d \in 1..MaxDate}
    \cap UNION {{PageRow(Row(t, "en", c, TagOf(t), d)) :
                   t \in TermsOf(c), d \in 1..MaxDate} : c \in 1..MaxSrc + 1}

RECURSIVE SeqsUpTo(_, _)
SeqsUpTo(S, n) ==
  IF n = 0 THEN {<<>>}
  ELSE SeqsUpTo(S, n - 1)
         \cup {Append(s, x) : s \in {t \in SeqsUpTo(S, n - 1) : Len(t) = n - 1}, x \in S}

\* A course without levels, or with up to MaxLevels levels, the records in
\* the first one.
Courses ==
  {<<>>} \cup
  {[l \in 1..nl |-> IF l = 1 THEN recs ELSE <<>>] :
     nl \in 1..MaxLevels, recs \in SeqsUpTo(CourseRows, MaxTgt)}

Init ==
  /\ notion_src \in SourceSnapshots(MaxSrc)
  /\ levels \in Courses
  /\ pc = "start"
  /\ notion_df = <<>>
  /\ deduped_df = <<>>
  /\ memrise_df = <<>>
  /\ fetched = FALSE
  /\ global_res_df = <<>>
  /\ persisted = <<>>
  /\ called = {}
  /\ deleted_from_notion_df = <<>>
  /\ update_from_notion_df = <<>>
  /\ new_from_notion_df = <<>>
  /\ attempts = <<>>
  /\ fn_args = <<>>
  /\ fn_ret = <<>>

(***************************** notion2memrise ******************************)
Attempts(action, tried) ==
  [i \in DOMAIN tried |->
     [action |-> action, cid |-> tried[i].cid, result |-> tried[i].result]]

\* the run goes on with an empty frame
empty_stop_never(df) == FALSE

\* line 29: the run stops on an empty frame
empty_stop(df) == df = <<>>

\* the delete and update steps are taken on an empty course too
after_fetch_always_delete(df) == "delete"

\* line 45: the delete and update steps are skipped on an empty course
after_fetch(df) == IF df = <<>> THEN "add" ELSE "delete"

\* the delete step is taken again after the update step
next_phase_delete_again(p) ==
  CASE p = "delete" -> "update"
    [] p = "update" -> "delete"
    [] p = "add" -> "done"

\* lines 50-73: delete, then update, then add, then the end
next_phase(p) ==
  CASE p = "delete" -> "update"
    [] p = "update" -> "add"
    [] p = "add" -> "done"

\* lines 28-35: validate, stop on an empty frame, sort oldest to newest
Validate ==
  /\ pc = "start"
  /\ UNCHANGED <<fn_args, fn_ret>>
  /\ LET df == validate_input(notion_src)
     IN IF empty_stop(df)
        THEN pc' = "empty" /\ UNCHANGED notion_df
        ELSE /\ pc' = "dedup"
             /\ \E p \in SortedOrders(df, TRUE) : notion_df' = Reorder(df, p)
  /\ UNCHANGED <<notion_src, levels, deduped_df, memrise_df, fetched, global_res_df,
                 persisted, called, deleted_from_notion_df,
                 update_from_notion_df, new_from_notion_df, attempts>>

\* lines 39-40
Dedup ==
  /\ pc = "dedup"
  /\ UNCHANGED <<fn_args, fn_ret>>
  /\ LET h == handle_notion_duplicates(notion_df)
     IN IF h.raised
        THEN pc' = "crashed" /\ UNCHANGED <<notion_df, deduped_df, global_res_df>>
        ELSE /\ pc' = "fetch"
             /\ notion_df' = h.notion_df
             /\ deduped_df' = h.notion_df
             /\ global_res_df' = global_res_df \o h.res_df
  /\ UNCHANGED <<notion_src, levels, memrise_df, fetched, persisted, called,
                 deleted_from_notion_df, update_from_notion_df,
                 new_from_notion_df, attempts>>

\* lines 43-48: get_all_words raises when its waits time out, as they do on a
\* course without levels; a snapshot that is not empty is sorted newest first
\* and gets the column "source".
Fetch ==
  /\ pc = "fetch"
  /\ UNCHANGED <<fn_args, fn_ret>>
  /\ \E outcome \in {"ok", "raise"} :
       IF outcome = "raise" \/ Len(levels) = 0
       THEN pc' = "crashed" /\ UNCHANGED <<memrise_df, fetched>>
       ELSE LET df == get_all_words(levels)
            IN /\ fetched' = TRUE
               /\ pc' = after_fetch(df)
               /\ \E p \in SortedOrders(df, FALSE) :
                    memrise_df' = [i \in DOMAIN df |->
                                     Reorder(df, p)[i] @@ ("source" :> "memrise")]
  /\ UNCHANGED <<notion_src, levels, notion_df, deduped_df, global_res_df,
                 persisted, called, deleted_from_notion_df,
                 update_from_notion_df, new_from_notion_df, attempts>>

\* lines 50-53, given the frame df that is passed and what the handler did
Deleted(df, h) ==
  /\ deleted_from_notion_df' = df
  /\ called' = called \cup {"delete"}
  /\ levels' = h.levels
  /\ attempts' = attempts \o Attempts("delete", h.tried)
  /\ IF h.raised
     THEN pc' = "crashed" /\ UNCHANGED global_res_df
     ELSE pc' = next_phase("delete") /\ global_res_df' = global_res_df \o h.res_df

Delete ==
  /\ pc = "delete"
  /\ UNCHANGED <<fn_args, fn_ret>>
  /\ \E out \in [DOMAIN anti_join(memrise_df, notion_df, {"cell id"}) -> DeleteOutcomes],
        save \in SaveOutcomes :
       Deleted(anti_join(memrise_df, notion_df, {"cell id"}),
               handle_deleted_from_notion(
                 levels, anti_join(memrise_df, notion_df, {"cell id"}), out, save))
  /\ UNCHANGED <<notion_src, notion_df, deduped_df, memrise_df, fetched, persisted,
                 update_from_notion_df, new_from_notion_df>>

\* the oldest timestamp of the course is taken
memrise_most_recent_oldest == memrise_df[Len(memrise_df)]["date modified"]

\* line 48: the newest timestamp of the course
memrise_most_recent == memrise_df[1]["date modified"]

\* records as old as the newest of the course are candidates too
newer_df_inclusive ==
  SelectSeq(notion_df, LAMBDA r : r["date modified"] >= memrise_most_recent)

\* the records older than the newest of the course are the candidates
newer_df_older ==
  SelectSeq(notion_df, LAMBDA r : r["date modified"] < memrise_most_recent)

\* line 55
newer_df == SelectSeq(notion_df, LAMBDA r : r["date modified"] > memrise_most_recent)

\* the updated records stay among the records that go to the add phase
Updated_keeps_updated(df, h) ==
  /\ update_from_notion_df' = df
  /\ called' = called \cup {"update"}
  /\ levels' = h.levels
  /\ attempts' = attempts \o Attempts("update", h.tried)
  /\ IF h.raised
     THEN pc' = "crashed" /\ UNCHANGED <<global_res_df, notion_df>>
     ELSE /\ pc' = next_phase("update")
          /\ global_res_df' = global_res_df \o h.res_df
          /\ notion_df' = newer_df

\* lines 57-64, given the frame df that is passed and what the handler did
Updated(df, h) ==
  /\ update_from_notion_df' = df
  /\ called' = called \cup {"update"}
  /\ levels' = h.levels
  /\ attempts' = attempts \o Attempts("update", h.tried)
  /\ IF h.raised
     THEN pc' = "crashed" /\ UNCHANGED <<global_res_df, notion_df>>
     ELSE /\ pc' = next_phase("update")
          /\ global_res_df' = global_res_df \o h.res_df
          /\ notion_df' = SelectSeq(newer_df,
                            LAMBDA r : r["cell id"] \notin Range(CellIds(df)))

Update ==
  /\ pc = "update"
  /\ UNCHANGED <<fn_args, fn_ret>>
  /\ \E u \in semi_join(newer_df, memrise_df, {"cell id"}) :
       \E out \in [DOMAIN u -> UpdateOutcomes], fault \in Faults :
         Updated(u, handle_updated_from_notion(levels, u, out, fault))
  /\ UNCHANGED <<notion_src, deduped_df, memrise_df, fetched, persisted,
                 deleted_from_notion_df, new_from_notion_df>>

\* only the rows of the add handler are written
Added_last_rows_only(h) ==
  /\ new_from_notion_df' = notion_df
  /\ called' = called \cup {"add"}
  /\ levels' = h.levels
  /\ attempts' = attempts \o
       Attempts("add", Concat([b \in DOMAIN h.bulks |-> h.bulks[b].tried]))
  /\ IF h.raised
     THEN pc' = "crashed" /\ UNCHANGED <<global_res_df, persisted>>
     ELSE /\ pc' = next_phase("add")
          /\ global_res_df' = global_res_df \o h.res_df
          /\ persisted' = Append(persisted, h.res_df)

\* lines 67-73, given what the handler did: the ledger is written
Added(h) ==
  /\ new_from_notion_df' = notion_df
  /\ called' = called \cup {"add"}
  /\ levels' = h.levels
  /\ attempts' = attempts \o
       Attempts("add", Concat([b \in DOMAIN h.bulks |-> h.bulks[b].tried]))
  /\ IF h.raised
     THEN pc' = "crashed" /\ UNCHANGED <<global_res_df, persisted>>
     ELSE /\ pc' = next_phase("add")
          /\ global_res_df' = global_res_df \o h.res_df
          /\ persisted' = Append(persisted, global_res_df \o h.res_df)

Add ==
  /\ pc = "add"
  /\ UNCHANGED <<fn_args, fn_ret>>
  /\ \E out \in [DOMAIN notion_df -> AddOutcomes], fault \in Faults :
       Added(handle_new_from_notion(levels, notion_df, out, fault))
  /\ UNCHANGED <<notion_src, notion_df, deduped_df, memrise_df, fetched,
                 deleted_from_notion_df, update_from_notion_df>>

Next == Validate \/ Dedup \/ Fetch \/ Delete \/ Update \/ Add

Spec == Init /\ [][Next]_vars

(***************************** properties **********************************)
\* The records of the source that hold every required field.
ValidSource ==
  {r \in Range(notion_src) :
     /\ r["French"] # NULL /\ r["English"] # NULL
     /\ r["date modified"] # NaT /\ r["cell id"] # NaT}

SourceCids == {r["cell id"] : r \in Range(notion_src)}

\* The records and the cell ids of the course as the run fetched it.
TargetSnapshot == Range(Project(memrise_df, COL_LIST))
SnapshotCids == {r["cell id"] : r \in Range(memrise_df)}

\* The newest timestamp of the fetched course (it is not empty).
Tmax ==
  CHOOSE d \in {r["date modified"] : r \in Range(memrise_df)} :
    \A r \in Range(memrise_df) : r["date modified"] <= d

\* The records of the course now.
TargetNow == Range(get_all_words(levels))

Attempted(action, cid) ==
  \E i \in DOMAIN attempts : attempts[i].action = action /\ attempts[i].cid = cid

AttemptedActions == {attempts[i].action : i \in DOMAIN attempts}

AllSucceeded == \A i \in DOMAIN attempts : attempts[i].result = "ok"

\* The frame handed to the handler of an action.
PassedTo(action) ==
  CASE action = "delete" -> deleted_from_notion_df
    [] action = "update" -> update_from_notion_df
    [] action = "add" -> new_from_notion_df

\* C7: when validation of the source yields zero records, the only step of
\* the run is the one to the terminal state "empty": nothing is fetched from
\* the course, no handler is called, no delete, update or add is attempted,
\* nothing is written and the course is left as it was.
C7_EmptySourceStops ==
  [][ValidSource = {} =>
        /\ pc = "start" /\ pc' = "empty"
        /\ levels' = levels
        /\ fetched' = FALSE /\ memrise_df' = <<>>
        /\ called' = {} /\ attempts' = <<>>
        /\ global_res_df' = <<>> /\ persisted' = <<>>]_vars

C7_Witness ==
  /\ pc = "empty"
  /\ notion_src # <<>>
  /\ get_all_words(levels) # <<>>

PhaseRank(action) ==
  CASE action = "delete" -> 1
    [] action = "update" -> 2
    [] action = "add" -> 3

\* C9: in the order of the attempts of a run, no update attempt comes before
\* a delete attempt and no add attempt comes before a delete or an update
\* attempt.
C9_PhaseOrder ==
  \A i, j \in DOMAIN attempts :
    i < j => PhaseRank(attempts[i].action) <= PhaseRank(attempts[j].action)

C9_Witness ==
  /\ pc = "done"
  /\ AttemptedActions = {"delete", "update", "add"}

\* C4: in a run whose fetched course is not empty, a source record that is
\* not newer than the newest record of the course and whose cell id is on
\* the course is in neither the frame handed to the update handler nor the
\* one handed to the add handler, and no update and no add is attempted for
\* its cell id.
C4_OldRecordsUntouched ==
  (fetched /\ memrise_df # <<>>) =>
    \A r \in Range(notion_src) :
      (r["date modified"] <= Tmax /\ r["cell id"] \in SnapshotCids) =>
        /\ r["cell id"] \notin Range(CellIds(update_from_notion_df))
        /\ r["cell id"] \notin Range(CellIds(new_from_notion_df))
        /\ ~Attempted("update", r["cell id"])
        /\ ~Attempted("add", r["cell id"])

C4_Witness ==
  /\ pc = "done"
  /\ memrise_df # <<>>
  /\ \E r \in ValidSource :
       r["date modified"] = Tmax /\ r["cell id"] \in SnapshotCids
  /\ AttemptedActions \cap {"update", "add"} # {}

\* The candidates: the records left by the duplicate handling that are newer
\* than the newest record of the fetched course.
Candidates == SelectSeq(deduped_df, LAMBDA r : r["date modified"] > Tmax)

\* C5: in a run whose fetched course is not empty, the frame handed to the
\* update handler holds exactly the candidates whose cell id is on the
\* course, and the frame handed to the add handler holds exactly the other
\* candidates.
C5_CandidatesPartitioned ==
  (fetched /\ memrise_df # <<>>) =>
    /\ "update" \in called =>
         update_from_notion_df =
           SelectSeq(Candidates, LAMBDA r : r["cell id"] \in SnapshotCids)
    /\ "add" \in called =>
         new_from_notion_df =
           SelectSeq(Candidates, LAMBDA r : r["cell id"] \notin SnapshotCids)

C5_Witness ==
  /\ pc = "done"
  /\ memrise_df # <<>>
  /\ update_from_notion_df # <<>>
  /\ new_from_notion_df # <<>>
  /\ Len(update_from_notion_df) + Len(new_from_notion_df) = Len(Candidates)

\* The cell ids the duplicate handling reported as dropped.
DroppedCids ==
  {global_res_df[k]["cell id"] :
     k \in {n \in DOMAIN global_res_df :
              global_res_df[n]["action"] = "duplicate_drop"}}

\* C6: when the fetched course is empty, neither the delete nor the update
\* handler is called, no delete and no update is attempted, and the add
\* handler is handed every valid source record that the duplicate handling
\* kept, whatever its timestamp.
C6_EmptyTargetAddsAll ==
  (fetched /\ memrise_df = <<>>) =>
    /\ called \subseteq {"add"}
    /\ AttemptedActions \subseteq {"add"}
    /\ "add" \in called =>
         /\ new_from_notion_df = deduped_df
         /\ Range(new_from_notion_df) =
              {r \in ValidSource : r["cell id"] \notin DroppedCids}

C6_Witness ==
  /\ pc = "done"
  /\ memrise_df = <<>>
  /\ Len(new_from_notion_df) = 2
  /\ new_from_notion_df[1]["date modified"] # new_from_notion_df[2]["date modified"]
  /\ AttemptedActions = {"add"}

\* The run has ended: at the empty notice, after the ledger was written, or
\* by an exception that nothing caught.
RunEnded == pc \in {"empty", "done", "crashed"}

LedgerHas(cid, action, success) ==
  \E k \in DOMAIN global_res_df :
    /\ global_res_df[k]["cell id"] = cid
    /\ global_res_df[k]["action"] = action
    /\ global_res_df[k]["success"] = success

\* C2: in a run whose fetched course is not empty, every record of the
\* course whose cell id is not in the source has got a delete attempt when
\* the run has ended; when the attempt succeeded, the ledger holds the row
\* (cell id, delete, success true) and the course holds no record of that
\* cell id.
C2_AbsentRecordsDeleted ==
  (RunEnded /\ fetched /\ memrise_df # <<>>) =>
    \A r \in Range(memrise_df) :
      r["cell id"] \notin SourceCids =>
        /\ Attempted("delete", r["cell id"])
        /\ (\E i \in DOMAIN attempts :
              attempts[i] = [action |-> "delete", cid |-> r["cell id"],
                             result |-> "ok"]) =>
             /\ LedgerHas(r["cell id"], "delete", TRUE)
             /\ r["cell id"] \notin CourseCids(levels)

\* The rows of df that a later row repeats, apart from case, in "French".
EarlierDuplicates(df) ==
  {i \in DOMAIN df :
     \E j \in DOMAIN df :
       j > i /\ Lower(df[j]["French"]) = Lower(df[i]["French"])}

\* C3: handed the records sorted oldest to newest, handle_notion_duplicates
\* returns them without the records that a later record repeats in the term,
\* apart from case, and returns one ledger row (cell id, duplicate_drop,
\* success true, no error) for each record it left out.
C3_DuplicatesDropped ==
  pc = "dedup" =>
    LET h == handle_notion_duplicates(notion_df)
        dup == EarlierDuplicates(notion_df)
    IN /\ ~h.raised
       /\ Range(h.notion_df) = {notion_df[i] : i \in DOMAIN notion_df \ dup}
       /\ Len(h.notion_df) = Len(notion_df) - Cardinality(dup)
       /\ Len(h.res_df) = Cardinality(dup)
       /\ \A i \in dup :
            \E k \in DOMAIN h.res_df :
              /\ h.res_df[k]["cell id"] = notion_df[i]["cell id"]
              /\ h.res_df[k]["action"] = "duplicate_drop"
              /\ h.res_df[k]["success"] = TRUE
              /\ h.res_df[k]["error"] = NULL

\* The handler of an action has returned to notion2memrise.
Returned(action) ==
  \/ pc = "done"
  \/ action = "delete" /\ (pc = "update" \/ called \cap {"update", "add"} # {})
  \/ action = "update" /\ (pc = "add" \/ "add" \in called)

\* C8: an attempt that did not succeed was caught where it was made; once
\* the handler of its phase has returned, the ledger holds a row for it with
\* success false and an error text; and every record handed to that handler
\* has been attempted.
C8_FailuresAreCaught ==
  \A i \in DOMAIN attempts :
    attempts[i].result # "ok" =>
      /\ attempts[i].result = "failed"
      /\ Returned(attempts[i].action) =>
           \E k \in DOMAIN global_res_df :
             /\ global_res_df[k]["cell id"] = attempts[i].cid
             /\ global_res_df[k]["action"] = attempts[i].action
             /\ global_res_df[k]["success"] = FALSE
             /\ global_res_df[k]["error"] # NULL
      /\ \A r \in Range(PassedTo(attempts[i].action)) :
           Attempted(attempts[i].action, r["cell id"])

\* C10: the ledger of a run holds at most one row for a cell id and an
\* action.
C10_OneRowPerItem ==
  \A i, j \in DOMAIN global_res_df :
    (/\ global_res_df[i]["cell id"] = global_res_df[j]["cell id"]
     /\ global_res_df[i]["action"] = global_res_df[j]["action"]) => i = j

\* No two records of the source carry the same term, apart from case.
NoDuplicateTerms ==
  \A i, j \in DOMAIN notion_src :
    Lower(notion_src[i]["French"]) = Lower(notion_src[j]["French"]) => i = j

TargetInStep ==
  /\ \A i, j \in DOMAIN memrise_df :
       memrise_df[i]["cell id"] = memrise_df[j]["cell id"] => i = j
  /\ memrise_df # <<>> =>
       \A r \in ValidSource : r["date modified"] <= Tmax => r \in TargetSnapshot

ActionRank(action) ==
  CASE action = "duplicate_drop" -> 0
    [] action = "delete" -> 1
    [] action = "update" -> 2
    [] action = "add" -> 3

\* The ledger rows a step of the run may return, given the state it starts in.
PhaseRows ==
  CASE pc = "dedup" -> {handle_notion_duplicates(notion_df).res_df}
    [] pc = "delete" ->
         {handle_deleted_from_notion(levels, deleted_from_notion_df', out, save).res_df :
            out \in [DOMAIN deleted_from_notion_df' -> DeleteOutcomes],
            save \in SaveOutcomes}
    [] pc = "update" ->
         {handle_updated_from_notion(levels, update_from_notion_df', out, fault).res_df :
            out \in [DOMAIN update_from_notion_df' -> UpdateOutcomes],
            fault \in Faults}
    [] pc = "add" ->
         {handle_new_from_notion(levels, new_from_notion_df', out, fault).res_df :
            out \in [DOMAIN new_from_notion_df' -> AddOutcomes],
            fault \in Faults}
    [] OTHER -> {<<>>}

\* C11: a run that has come to its end has written exactly one ledger, the
\* ledger of the run; its rows come in the order duplicate_drop, delete,
\* update, add and carry exactly the columns French, cell id, action,
\* success, error; and every step of a run leaves the rows the ledger
\* already held as they were and appends the rows its handler returned.
C11_LedgerPersisted ==
  /\ [](pc = "done" =>
          /\ persisted = <<global_res_df>>
          /\ \A i, j \in DOMAIN global_res_df :
               i < j => ActionRank(global_res_df[i]["action"])
                          <= ActionRank(global_res_df[j]["action"])
          /\ \A i \in DOMAIN global_res_df :
               DOMAIN global_res_df[i] = Range(COL_ORDER_LIST))
  /\ [][\/ pc' = "crashed" /\ global_res_df' = global_res_df
        \/ \E rows \in PhaseRows : global_res_df' = global_res_df \o rows]_vars

C11_Witness ==
  /\ pc = "done"
  /\ persisted = <<global_res_df>>
  /\ {global_res_df[i]["action"] : i \in DOMAIN global_res_df}
       = {"delete", "update", "add"}

\* C12: when an exception ends a run whose ledger already holds rows, that
\* ledger has been written.
C12_LedgerSurvivesAbort ==
  (pc = "crashed" /\ global_res_df # <<>>) => persisted = <<global_res_df>>

(***************************** add_words on its own ***********************)
\* The course has up to MaxAddLevels levels before the call.
MaxAddLevels == 2

\* The number of words a level may hold before the call: none, some, full.
AddOccupancies == {0, 5, LEVEL_WORD_LIMIT}

\* The number of words handed to add_words.
AddPending == {0, 1, 15, LEVEL_WORD_LIMIT, 21, 30, 45}

\* A course whose level l holds occ[l] words (cell ids 100 * l + 1 ..).
AddCourse(occ) ==
  [l \in DOMAIN occ |->
     [k \in 1..occ[l] |-> PageRow(Row("chat", "en", 100 * l + k, "noun", 1))]]

AddCourses ==
  {AddCourse(occ) : occ \in UNION {[1..n -> AddOccupancies] : n \in 0..MaxAddLevels}}

\* n valid words, cell ids 1..n, oldest first.
PendingWords(n) == [i \in 1..n |-> Row("chat", "en", i, "noun", 1)]

\* Every word is found on the page after its bulk add, or all but the first,
\* or all but the last.
PendingOutcomes(n) ==
  {[i \in 1..n |-> IF i = k THEN "timeout" ELSE "ok"] : k \in {0, 1, n}}

InitAdd ==
  /\ pc = "add_words"
  /\ fn_args \in {[lv |-> lv, word_df |-> PendingWords(n), out |-> out, fault |-> fault] :
                    lv \in AddCourses, n \in AddPending,
                    out \in UNION {PendingOutcomes(m) : m \in AddPending},
                    fault \in {"none", "before"}}
  /\ Len(fn_args.out) = Len(fn_args.word_df)
  /\ fn_ret = <<>>
  /\ notion_src = <<>>
  /\ levels = <<>>
  /\ notion_df = <<>>
  /\ deduped_df = <<>>
  /\ memrise_df = <<>>
  /\ fetched = FALSE
  /\ global_res_df = <<>>
  /\ persisted = <<>>
  /\ called = {}
  /\ deleted_from_notion_df = <<>>
  /\ update_from_notion_df = <<>>
  /\ new_from_notion_df = <<>>
  /\ attempts = <<>>

\* One call of add_words.
CallAddWords ==
  /\ pc = "add_words"
  /\ pc' = "add_words_returned"
  /\ fn_ret' = add_words(fn_args.lv, fn_args.word_df, fn_args.out, fn_args.fault)
  /\ UNCHANGED <<notion_src, levels, notion_df, deduped_df, memrise_df, fetched,
                 global_res_df, persisted, called, deleted_from_notion_df,
                 update_from_notion_df, new_from_notion_df, attempts, fn_args>>

\* One call of handle_new_from_notion.
CallHandleNew ==
  /\ pc = "add_words"
  /\ pc' = "handle_new_returned"
  /\ fn_ret' = handle_new_from_notion(fn_args.lv, fn_args.word_df, fn_args.out,
                                      fn_args.fault)
  /\ UNCHANGED <<notion_src, levels, notion_df, deduped_df, memrise_df, fetched,
                 global_res_df, persisted, called, deleted_from_notion_df,
                 update_from_notion_df, new_from_notion_df, attempts, fn_args>>

NextAdd == CallAddWords \/ CallHandleNew

SpecAdd == InitAdd /\ [][NextAdd]_vars

AddReturned == pc = "add_words_returned"

\* The _add_bulk calls into levels that were there, and into new levels.
OldBulks == SelectSeq(fn_ret.bulks, LAMBDA b : ~b.new)
NewBulks == SelectSeq(fn_ret.bulks, LAMBDA b : b.new)

BulkCids(b) == [i \in DOMAIN b.tried |-> b.tried[i].cid]

\* The cell ids of the words left for new levels, in input order.
Remaining ==
  SelectSeq(CellIds(fn_args.word_df),
            LAMBDA c : \A k \in DOMAIN OldBulks : c \notin Range(BulkCids(OldBulks[k])))

\* C14: when add_words returns, the words that no bulk add into an existing
\* level took went, in input order, in consecutive chunks of
\* LEVEL_WORD_LIMIT words (the last chunk may be shorter), each chunk as one
\* bulk add into a level created for it, after every bulk add into an
\* existing level; one level was created per chunk.
C14_NewLevelPerChunk ==
  (AddReturned /\ ~fn_ret.raised) =>
    /\ Len(NewBulks) = (Len(Remaining) + LEVEL_WORD_LIMIT - 1) \div LEVEL_WORD_LIMIT
    /\ Len(fn_ret.levels) = Len(fn_args.lv) + Len(NewBulks)
    /\ \A k \in DOMAIN NewBulks :
         /\ NewBulks[k].level = Len(fn_args.lv) + k
         /\ BulkCids(NewBulks[k]) =
              SubSeq(Remaining, (k - 1) * LEVEL_WORD_LIMIT + 1,
                     IF k * LEVEL_WORD_LIMIT < Len(Remaining)
                     THEN k * LEVEL_WORD_LIMIT ELSE Len(Remaining))
    /\ \A i, j \in DOMAIN fn_ret.bulks :
         (i < j /\ fn_ret.bulks[i].new) => fn_ret.bulks[j].new

C14_Witness ==
  /\ AddReturned /\ ~fn_ret.raised
  /\ OldBulks # <<>>
  /\ Len(NewBulks) = 2
  /\ Len(NewBulks[1].tried) = LEVEL_WORD_LIMIT
  /\ Len(NewBulks[2].tried) < LEVEL_WORD_LIMIT

\* One level holding 5 words, 30 words to add, every add succeeding.
C15_Scenario ==
  /\ AddReturned
  /\ LEVEL_WORD_LIMIT = 20
  /\ Len(fn_args.lv) = 1 /\ Len(fn_args.lv[1]) = 5
  /\ Len(fn_args.word_df) = 30
  /\ fn_args.fault = "none"
  /\ \A i \in DOMAIN fn_args.out : fn_args.out[i] = "ok"

\* C15: with a limit of 20, one level holding 5 words, 30 words to add and
\* every add succeeding, add_words puts the first 15 words into the level,
\* which then holds 20, and creates exactly one level, which holds the other
\* 15.
C15_FillThenOneNewLevel ==
  C15_Scenario =>
    /\ ~fn_ret.raised
    /\ Len(fn_ret.levels) = 2
    /\ fn_ret.levels[1] =
         fn_args.lv[1] \o [i \in 1..15 |-> PageRow(fn_args.word_df[i])]
    /\ fn_ret.levels[2] = [i \in 1..15 |-> PageRow(fn_args.word_df[15 + i])]
    /\ Len(NewBulks) = 1

C15_Witness == C15_Scenario /\ Len(fn_ret.levels[1]) = 20

\* C16: called with a word to add for a course without levels, add_words
\* creates a level and adds the words to it, or raises an error that is
\* neither an item failure nor a timeout.
C16_NoLevels ==
  (/\ AddReturned
   /\ Len(fn_args.lv) = 0
   /\ Len(fn_args.word_df) >= 1
   /\ fn_args.fault = "none") =>
    \/ /\ ~fn_ret.raised
       /\ Len(fn_ret.levels) >= 1
       /\ \A i \in DOMAIN fn_args.word_df :
            fn_args.out[i] = "ok" =>
              \E l \in DOMAIN fn_ret.levels :
                PageRow(fn_args.word_df[i]) \in Range(fn_ret.levels[l])
    \/ /\ fn_ret.raised
       /\ fn_ret.error = "ConfigurationError"

\* The cell ids submitted by the bulk adds before the k-th, in order.
SubmittedBefore(k) ==
  Concat([j \in 1..(k - 1) |-> BulkCids(fn_ret.bulks[j])])

\* The words of the level of the k-th bulk add just before it.
OccupancyBefore(k) ==
  Len(fn_args.lv[fn_ret.bulks[k].level])
    + Len(SelectSeq(SubmittedBefore(k),
                    LAMBDA c : \E j \in 1..(k - 1) :
                      /\ fn_ret.bulks[j].level = fn_ret.bulks[k].level
                      /\ \E t \in Range(fn_ret.bulks[j].tried) :
                           t.cid = c /\ t.result = "ok"))

AddMin(a, b) == IF a < b THEN a ELSE b

MaxCalls == 2
MaxPolls == 3

\* What the database page shows to _delete_one_word_from_db:
\*   "no_page"    the search field never becomes clickable;
\*   "absent"     the search finds no entry;
\*   "gone"       the entries are gone after one turn of the loop;
\*   "gone_late"  the entries are gone after two turns;
\*   "never_gone" the entries are still listed after every turn.
DeleteTargets == {"no_page", "absent", "gone", "gone_late", "never_gone"}

\* What the database page shows to delete_words("ALL").
DeleteAllTargets == {"empty_db", "gone", "gone_late", "never_gone"}

\* What the edit page shows to update_words for one word:
\*   "not_found"   the cell id is not on the page;
\*   "shown"       every cell displays its new value at the first look;
\*   "shown_late"  every cell displays it at the second look;
\*   "never_shown" the cells never display the new value.
UpdateTargets == {"not_found", "shown", "shown_late", "never_shown"}

\* What the edit page shows to _add_bulk of one word:
\*   "no_level"  the level is not shown;
\*   "added"     the word is on the page afterwards;
\*   "not_found" the word is not on the page afterwards.
AddTargets == {"no_level", "added", "not_found"}

WaitCalls ==
  {[kind |-> "delete", target |-> t] : t \in DeleteTargets}
    \cup {[kind |-> "delete_all", target |-> t] : t \in DeleteAllTargets}
    \cup {[kind |-> "update", target |-> t] : t \in UpdateTargets}
    \cup {[kind |-> "add", target |-> t] : t \in AddTargets}

run_vars ==
  <<notion_src, levels, notion_df, deduped_df, memrise_df, fetched,
    global_res_df, persisted, called, deleted_from_notion_df,
    update_from_notion_df, new_from_notion_df, attempts>>

\* fn_ret is [k, n, c, res]: the call at hand, the turns of its loop so far,
\* the column at hand of update_words, and the result of each finished call.
InitWait ==
  /\ pc = "call"
  /\ fn_args \in {[calls |-> cs] :
                    cs \in UNION {[1..n -> WaitCalls] : n \in 1..MaxCalls}}
  /\ fn_ret = [k |-> 1, n |-> 0, c |-> 0, res |-> <<>>]
  /\ notion_src = <<>>
  /\ levels = <<>>
  /\ notion_df = <<>>
  /\ deduped_df = <<>>
  /\ memrise_df = <<>>
  /\ fetched = FALSE
  /\ global_res_df = <<>>
  /\ persisted = <<>>
  /\ called = {}
  /\ deleted_from_notion_df = <<>>
  /\ update_from_notion_df = <<>>
  /\ new_from_notion_df = <<>>
  /\ attempts = <<>>

CurrentCall == fn_args.calls[fn_ret.k]

CallIs(kind) ==
  /\ pc = "call"
  /\ fn_ret.k <= Len(fn_args.calls)
  /\ CurrentCall.kind = kind

\* The call at hand returns ok and the next call is at hand.
Finish(ok) ==
  /\ pc' = "call"
  /\ fn_ret' = [k |-> fn_ret.k + 1, n |-> 0, c |-> 0,
                res |-> Append(fn_ret.res, ok)]

\* An exception leaves the run.
Raise == pc' = "raised" /\ fn_ret' = fn_ret

\* One more turn of a loop; the turns are counted up to MaxPolls and then
\* anew.
Again == pc' = pc /\ fn_ret' = [fn_ret EXCEPT !.n = IF @ < MaxPolls THEN @ + 1 ELSE 1]

\* The turns after which the target shows the change; none for a target that
\* never shows it.
Turns(target) ==
  CASE target \in {"gone"} -> {1}
    [] target \in {"gone_late"} -> {2}
    [] target \in {"shown"} -> {0}
    [] target \in {"shown_late"} -> {1}
    [] OTHER -> {}

\* _delete_one_word_from_db, lines 264-276: the search field, the search.
delete_one_word_search ==
  /\ CallIs("delete")
  /\ CASE CurrentCall.target = "no_page" -> Raise
       [] CurrentCall.target = "absent" -> Finish(FALSE)
       [] OTHER -> pc' = "delete_one_word_loop" /\ fn_ret' = fn_ret
  /\ UNCHANGED <<run_vars, fn_args>>

\* _delete_one_word_from_db, lines 282-292: one turn of `while thing_list`:
\* the page is deleted and refreshed; when the wait for entries times out
\* the loop is left and the word is deleted.
delete_one_word_loop ==
  /\ pc = "delete_one_word_loop"
  /\ IF \E d \in Turns(CurrentCall.target) : fn_ret.n + 1 >= d
     THEN Finish(TRUE)
     ELSE Again
  /\ UNCHANGED <<run_vars, fn_args>>

\* delete_words("ALL"), lines 376-383: the wait for the entries.
delete_all_start ==
  /\ CallIs("delete_all")
  /\ IF CurrentCall.target = "empty_db"
     THEN Finish(TRUE)
     ELSE pc' = "delete_all_loop" /\ fn_ret' = fn_ret
  /\ UNCHANGED <<run_vars, fn_args>>

\* delete_words("ALL"), lines 386-395: one turn of `while thing_list`.
delete_all_loop ==
  /\ pc = "delete_all_loop"
  /\ IF \E d \in Turns(CurrentCall.target) : fn_ret.n + 1 >= d
     THEN Finish(TRUE)
     ELSE Again
  /\ UNCHANGED <<run_vars, fn_args>>

\* update_words, lines 501-507 and 519-523: the wait for the cell id; a
\* timeout is caught and the word is not updated.
update_words_find ==
  /\ CallIs("update")
  /\ IF CurrentCall.target = "not_found"
     THEN Finish(FALSE)
     ELSE pc' = "update_cell" /\ fn_ret' = [fn_ret EXCEPT !.c = 1]
  /\ UNCHANGED <<run_vars, fn_args>>

\* _update_cell, lines 470-472: one turn of `while not updated`, for each
\* column but the cell id (update_words, lines 508-516).
update_cell ==
  /\ pc = "update_cell"
  /\ IF \E d \in Turns(CurrentCall.target) : fn_ret.n >= d
     THEN IF fn_ret.c = Len(COL_LIST) - 1
          THEN Finish(TRUE)
          ELSE pc' = pc /\ fn_ret' = [fn_ret EXCEPT !.c = @ + 1, !.n = 0]
     ELSE Again
  /\ UNCHANGED <<run_vars, fn_args>>

\* _add_bulk, lines 633-658: the waits for the level, the text area and the
\* dialogue, outside every try.
add_bulk_open ==
  /\ CallIs("add")
  /\ IF CurrentCall.target = "no_level"
     THEN Raise
     ELSE pc' = "add_bulk_check" /\ fn_ret' = fn_ret
  /\ UNCHANGED <<run_vars, fn_args>>

\* _add_bulk, lines 668-683: the wait for the word, WORD_SEARCH_TIME_OUT
\* seconds at most.
add_bulk_check ==
  /\ pc = "add_bulk_check"
  /\ Finish(CurrentCall.target = "added")
  /\ UNCHANGED <<run_vars, fn_args>>

\* Every call is finished.
RunReturns ==
  /\ pc = "call"
  /\ fn_ret.k > Len(fn_args.calls)
  /\ pc' = "returned"
  /\ UNCHANGED <<run_vars, fn_args, fn_ret>>

NextWait ==
  \/ delete_one_word_search
  \/ delete_one_word_loop
  \/ delete_all_start
  \/ delete_all_loop
  \/ update_words_find
  \/ update_cell
  \/ add_bulk_open
  \/ add_bulk_check
  \/ RunReturns

\* The program is one thread that keeps running: a step that can be taken
\* is taken.
SpecWait == InitWait /\ [][NextWait]_vars /\ WF_vars(NextWait)

\* C17: every run terminates: every call of a delete, update or add attempt
\* ends, also for a target that never shows the expected change.
C17_EveryRunTerminates == <>(pc \in {"returned", "raised"})

(***************************************************************************)
(* semi_join and anti_join on their own.                                   *)
(***************************************************************************)
MaxRowsA == 3
MaxRowsB == 2

JoinIds == {"1", "2"}
JoinKeys == {"k1", "k2"}

\* df1 holds the columns id, key and name; df2 holds id and key, and name,
\* extra or both.
JoinColumnsB ==
  {{"id", "key", "name"}, {"id", "key", "extra"}, {"id", "key", "name", "extra"}}

JoinRow(cols, id, key, other) ==
  [c \in cols |-> CASE c = "id" -> id [] c = "key" -> key [] OTHER -> other]

JoinFramesA ==
  SeqsUpTo({JoinRow({"id", "key", "name"}, i, k, "a") : i \in JoinIds, k \in JoinKeys},
           MaxRowsA)

JoinFramesB ==
  UNION {SeqsUpTo({JoinRow(cols, i, k, "b") : i \in JoinIds, k \in JoinKeys}, MaxRowsB) :
           cols \in JoinColumnsB}

InitJoin ==
  /\ pc = "join"
  /\ fn_args \in {[df1 |-> a, df2 |-> b, on |-> on] :
                    a \in JoinFramesA, b \in JoinFramesB,
                    on \in {{"id"}, {"id", "key"}}}
  /\ fn_ret = <<>>
  /\ notion_src = <<>>
  /\ levels = <<>>
  /\ notion_df = <<>>
  /\ deduped_df = <<>>
  /\ memrise_df = <<>>
  /\ fetched = FALSE
  /\ global_res_df = <<>>
  /\ persisted = <<>>
  /\ called = {}
  /\ deleted_from_notion_df = <<>>
  /\ update_from_notion_df = <<>>
  /\ new_from_notion_df = <<>>
  /\ attempts = <<>>

\* One call of semi_join.
CallSemiJoin ==
  /\ pc = "join"
  /\ pc' = "semi_join_returned"
  /\ \E u \in semi_join(fn_args.df1, fn_args.df2, fn_args.on) :
       fn_ret' = [semi |-> u]
  /\ UNCHANGED <<run_vars, fn_args>>

\* One call of anti_join, with the same frames.
CallAntiJoin ==
  /\ pc = "semi_join_returned"
  /\ pc' = "join_returned"
  /\ fn_ret' = [semi |-> fn_ret.semi,
                anti |-> anti_join(fn_args.df1, fn_args.df2, fn_args.on)]
  /\ UNCHANGED <<run_vars, fn_args>>

NextJoin == CallSemiJoin \/ CallAntiJoin

SpecJoin == InitJoin /\ [][NextJoin]_vars

\* The key tuples of df2.
KeysOfB == {KeyOf(q, fn_args.on) : q \in Range(fn_args.df2)}

Count(df, r) == Cardinality({i \in DOMAIN df : df[i] = r})

\* C18: the rows semi_join returns and the rows anti_join returns have no
\* row in common, and together they are the rows of df1, each as often as
\* df1 holds it.
C18_JoinsPartition ==
  pc = "join_returned" =>
    /\ Range(fn_ret.semi) \cap Range(fn_ret.anti) = {}
    /\ \A r \in Range(fn_args.df1) \cup Range(fn_ret.semi) \cup Range(fn_ret.anti) :
         Count(fn_ret.semi, r) + Count(fn_ret.anti, r) = Count(fn_args.df1, r)

\* C19: semi_join returns the rows of df1 whose key tuple is in df2, each
\* once, with df1's columns and values, in df1's order.
C19_SemiJoinRows ==
  pc \in {"semi_join_returned", "join_returned"} =>
    fn_ret.semi = SelectSeq(fn_args.df1, LAMBDA r : KeyOf(r, fn_args.on) \in KeysOfB)

\* C20: anti_join returns the rows of df1 whose key tuple is not in df2, in
\* df1's order, with df1's columns and df1's values in every column.
C20_AntiJoinRows ==
  pc = "join_returned" =>
    fn_ret.anti = SelectSeq(fn_args.df1, LAMBDA r : KeyOf(r, fn_args.on) \notin KeysOfB)

(***************************************************************************)
(* validate_input and handle_notion_duplicates on their own.               *)
(***************************************************************************)
MaxRecords == 2

\* The rows of a frame of words: any not-null column but the cell id may be
\* missing, and so may the optional column.
RecordRows ==
  {Row(t, e, c, g, d) : t \in {"chat", "Chat", NULL}, e \in {"en", NULL},
                        c \in 1..2, g \in {"noun", NULL}, d \in {1, NaT}}

\* Frames with the columns of COL_LIST, and frames with the column "source"
\* (handlers.py, line 47) as well.
RecordFrames ==
  SeqsUpTo(RecordRows, MaxRecords)
    \cup {[i \in DOMAIN df |-> df[i] @@ ("source" :> "notion")] :
            df \in SeqsUpTo(RecordRows, MaxRecords)}

InitRecords ==
  /\ pc = "records"
  /\ fn_args \in {[df |-> df] : df \in RecordFrames}
  /\ fn_ret = <<>>
  /\ notion_src = <<>>
  /\ levels = <<>>
  /\ notion_df = <<>>
  /\ deduped_df = <<>>
  /\ memrise_df = <<>>
  /\ fetched = FALSE
  /\ global_res_df = <<>>
  /\ persisted = <<>>
  /\ called = {}
  /\ deleted_from_notion_df = <<>>
  /\ update_from_notion_df = <<>>
  /\ new_from_notion_df = <<>>
  /\ attempts = <<>>

\* One call of validate_input.
CallValidateInput ==
  /\ pc = "records"
  /\ pc' = "validate_input_returned"
  /\ fn_ret' = [valid |-> validate_input(fn_args.df)]
  /\ UNCHANGED <<run_vars, fn_args>>

\* One call of handle_notion_duplicates.
CallDuplicates ==
  /\ pc = "records"
  /\ pc' = IF handle_notion_duplicates(fn_args.df).raised
           THEN "duplicates_raised" ELSE "duplicates_returned"
  /\ fn_ret' = [first |-> handle_notion_duplicates(fn_args.df)]
  /\ UNCHANGED <<run_vars, fn_args>>

\* A call of handle_notion_duplicates with the frame the first call returned.
CallDuplicatesAgain ==
  /\ pc = "duplicates_returned"
  /\ pc' = "duplicates_again_returned"
  /\ fn_ret' = [first |-> fn_ret.first,
                second |-> handle_notion_duplicates(fn_ret.first.notion_df)]
  /\ UNCHANGED <<run_vars, fn_args>>

NextRecords == CallValidateInput \/ CallDuplicates \/ CallDuplicatesAgain

SpecRecords == InitRecords /\ [][NextRecords]_vars

HasNotNulls(r) == \A c \in Range(NOT_NULL_COL_LIST) : ~isna(c, r[c])

\* C22: validate_input returns the rows of its input that have a value in
\* every column of NOT_NULL_COL_LIST, all of them and once each, in the
\* input's order, with the columns of COL_LIST and the input's values, a
\* missing optional value staying missing.
C22_ValidRowsOnly ==
  pc = "validate_input_returned" =>
    /\ \A k \in DOMAIN fn_ret.valid : DOMAIN fn_ret.valid[k] = Range(COL_LIST)
    /\ \E f \in [DOMAIN fn_ret.valid -> DOMAIN fn_args.df] :
         /\ \A j, k \in DOMAIN f : j < k => f[j] < f[k]
         /\ {f[k] : k \in DOMAIN f} = {i \in DOMAIN fn_args.df : HasNotNulls(fn_args.df[i])}
         /\ \A k \in DOMAIN f : \A c \in Range(COL_LIST) :
              fn_ret.valid[k][c] = fn_args.df[f[k]][c]

C22_Witness ==
  /\ pc = "validate_input_returned"
  /\ Len(fn_args.df) = 2
  /\ "source" \in DOMAIN fn_args.df[1]
  /\ isna("English", fn_args.df[1]["English"])
  /\ Len(fn_ret.valid) = 1
  /\ isna("Tags", fn_ret.valid[1]["Tags"])

(***************************************************************************)
(* More on add_words on its own (SpecAdd).                                 *)
(***************************************************************************)
\* The words of a bulk add that were found on the page afterwards.
OkCount(b) == Len(SelectSeq(b.tried, LAMBDA t : t.result = "ok"))

\* The k-th bulk add is the chunk for a level that was empty: the first one
\* into a level that held no word before the call.
IsFill(k) ==
  /\ ~fn_ret.bulks[k].new
  /\ Len(fn_args.lv[fn_ret.bulks[k].level]) = 0
  /\ \A j \in 1..(k - 1) : fn_ret.bulks[j].level # fn_ret.bulks[k].level

\* The k-th bulk add fills up an existing level.
IsTopUp(k) == ~fn_ret.bulks[k].new /\ ~IsFill(k)

StepOf(k) == IF IsFill(k) THEN 1 ELSE IF IsTopUp(k) THEN 2 ELSE 3

\* The existing levels that held no word before the call.
EmptyLevels == {l \in DOMAIN fn_args.lv : Len(fn_args.lv[l]) = 0}

\* The words the last existing level holds after the chunks for the empty
\* levels, and the pending words those chunks left.
LastAfterFill ==
  LET fills == {k \in DOMAIN fn_ret.bulks :
                  IsFill(k) /\ fn_ret.bulks[k].level = Len(fn_args.lv)}
  IN Len(fn_args.lv[Len(fn_args.lv)])
       + (IF fills = {} THEN 0 ELSE OkCount(fn_ret.bulks[CHOOSE k \in fills : TRUE]))

LeftAfterFill ==
  LET taken == LEVEL_WORD_LIMIT * Cardinality({k \in DOMAIN fn_ret.bulks : IsFill(k)})
  IN IF taken < Len(fn_args.word_df) THEN Len(fn_args.word_df) - taken ELSE 0

\* C25: the bulk adds of a call of add_words come in three steps, in this
\* order: one chunk of at most LEVEL_WORD_LIMIT words for each existing
\* empty level, in level order, while words are left; then at most one bulk
\* add that fills the last existing level up to the limit, made exactly when
\* that level is not full and words are left; then the bulk adds into new
\* levels.
C25_ThreeSteps ==
  (AddReturned /\ ~fn_ret.raised) =>
    /\ \A j, k \in DOMAIN fn_ret.bulks : j < k => StepOf(j) <= StepOf(k)
    /\ \A j, k \in DOMAIN fn_ret.bulks :
         (j < k /\ IsFill(j) /\ IsFill(k)) => fn_ret.bulks[j].level < fn_ret.bulks[k].level
    /\ \A k \in DOMAIN fn_ret.bulks :
         IsFill(k) => Len(fn_ret.bulks[k].tried) <= LEVEL_WORD_LIMIT
    /\ \A l \in EmptyLevels :
         (\E k \in DOMAIN fn_ret.bulks : IsFill(k) /\ fn_ret.bulks[k].level = l)
           <=> Len(fn_args.word_df)
                 > LEVEL_WORD_LIMIT * Cardinality({e \in EmptyLevels : e < l})
    /\ Cardinality({k \in DOMAIN fn_ret.bulks : IsTopUp(k)}) <= 1
    /\ (\E k \in DOMAIN fn_ret.bulks : IsTopUp(k))
         <=> (/\ Len(fn_args.lv) > 0
              /\ LastAfterFill < LEVEL_WORD_LIMIT
              /\ LeftAfterFill > 0)
    /\ \A k \in DOMAIN fn_ret.bulks :
         IsTopUp(k) =>
           /\ fn_ret.bulks[k].level = Len(fn_args.lv)
           /\ Len(fn_ret.bulks[k].tried)
                = AddMin(LEVEL_WORD_LIMIT - LastAfterFill, LeftAfterFill)
    /\ (\E k \in DOMAIN fn_ret.bulks : fn_ret.bulks[k].new)
         <=> Len(fn_args.word_df) > Len(SubmittedBefore(Len(OldBulks) + 1))

\* The three steps in one call: a chunk for an empty level, the last level
\* filled up, a new level.
C25_Witness ==
  /\ AddReturned /\ ~fn_ret.raised
  /\ Len(fn_ret.bulks) = 3
  /\ StepOf(1) = 1 /\ StepOf(2) = 2 /\ StepOf(3) = 3
  /\ fn_ret.bulks[1].level = 1 /\ fn_ret.bulks[2].level = 2

C24_OneBulkOneRow ==
  (pc = "handle_new_returned" /\ fn_args.fault = "none") =>
    /\ ~fn_ret.raised
    /\ \A i \in DOMAIN validate_input(fn_args.word_df) :
         Cardinality({kt \in {<<k, t>> : k \in DOMAIN fn_ret.bulks, t \in 1..LEVEL_WORD_LIMIT} :
                        /\ kt[2] \in DOMAIN fn_ret.bulks[kt[1]].tried
                        /\ fn_ret.bulks[kt[1]].tried[kt[2]].cid
                             = validate_input(fn_args.word_df)[i]["cell id"]}) = 1
    /\ Len(fn_ret.res_df) = Len(validate_input(fn_args.word_df))
    /\ \A i \in DOMAIN fn_ret.res_df :
         /\ fn_ret.res_df[i]["cell id"] = validate_input(fn_args.word_df)[i]["cell id"]
         /\ fn_ret.res_df[i]["action"] = "add"
    /\ (/\ \A i \in DOMAIN fn_args.out : fn_args.out[i] = "ok"
        /\ \A l \in DOMAIN fn_args.lv : fn_args.lv[l] = <<>>)
         => /\ Range(get_all_words(fn_ret.levels)) = Range(validate_input(fn_args.word_df))
            /\ Len(get_all_words(fn_ret.levels)) = Len(validate_input(fn_args.word_df))

(***************************************************************************)
(* handle_updated_from_notion on its own.                                  *)
(***************************************************************************)
InitUpdate ==
  /\ pc = "handle_updated"
  /\ fn_args \in {[lv |-> lv, df |-> df, out |-> out, fault |-> fault] :
                    lv \in Courses, df \in SourceSnapshots(MaxSrc),
                    out \in UNION {[1..n -> {"ok", "timeout"}] : n \in 0..MaxSrc},
                    fault \in {"none", "save"}}
  /\ Len(fn_args.out) = Len(fn_args.df)
  /\ fn_ret = <<>>
  /\ notion_src = <<>>
  /\ levels = <<>>
  /\ notion_df = <<>>
  /\ deduped_df = <<>>
  /\ memrise_df = <<>>
  /\ fetched = FALSE
  /\ global_res_df = <<>>
  /\ persisted = <<>>
  /\ called = {}
  /\ deleted_from_notion_df = <<>>
  /\ update_from_notion_df = <<>>
  /\ new_from_notion_df = <<>>
  /\ attempts = <<>>

\* One call of handle_updated_from_notion.
CallHandleUpdated ==
  /\ pc = "handle_updated"
  /\ pc' = "handle_updated_returned"
  /\ fn_ret' = handle_updated_from_notion(fn_args.lv, fn_args.df, fn_args.out,
                                          fn_args.fault)
  /\ UNCHANGED <<run_vars, fn_args>>

NextUpdate == CallHandleUpdated

SpecUpdate == InitUpdate /\ [][NextUpdate]_vars

\* A call with valid records whose cell ids are all in the course, in which
\* every update succeeds and no call around the loop raises.
C23_Scenario ==
  /\ pc = "handle_updated_returned"
  /\ fn_args.df # <<>>
  /\ validate_input(fn_args.df) = fn_args.df
  /\ \A i \in DOMAIN fn_args.df : fn_args.df[i]["cell id"] \in CourseCids(fn_args.lv)
  /\ \A i \in DOMAIN fn_args.out : fn_args.out[i] = "ok"
  /\ fn_args.fault = "none"

\* C23: such a call returns one ledger row per record, in input order, with
\* the record's term and cell id, action update, success true and no error,
\* and afterwards every record of the course with the cell id of an input
\* record holds that record's values in every column.
C23_UpdatedRecordsHoldInput ==
  C23_Scenario =>
    /\ ~fn_ret.raised
    /\ Len(fn_ret.res_df) = Len(fn_args.df)
    /\ \A i \in DOMAIN fn_ret.res_df :
         /\ fn_ret.res_df[i]["French"] = fn_args.df[i]["French"]
         /\ fn_ret.res_df[i]["cell id"] = fn_args.df[i]["cell id"]
         /\ fn_ret.res_df[i]["action"] = "update"
         /\ fn_ret.res_df[i]["success"] = TRUE
         /\ fn_ret.res_df[i]["error"] = NULL
    /\ \A r \in Range(get_all_words(fn_ret.levels)) :
         \A i \in DOMAIN fn_args.df :
           r["cell id"] = fn_args.df[i]["cell id"] => r = fn_args.df[i]

(***************************************************************************)
(* More on the run (Spec).                                                 *)
(***************************************************************************)
ValidSourceCids == {r["cell id"] : r \in ValidSource}

CidsPassedTo(action) == {r["cell id"] : r \in Range(PassedTo(action))}

\* C30: the cell ids of the frames handed to the delete handler, to the
\* update handler and to the add handler are pairwise disjoint, and every
\* cell id handed to the update or the add handler is one of a record the
\* duplicate handling kept, never one of a record it dropped.
C30_PhasesDisjoint ==
  /\ CidsPassedTo("delete") \cap CidsPassedTo("update") = {}
  /\ CidsPassedTo("delete") \cap CidsPassedTo("add") = {}
  /\ CidsPassedTo("update") \cap CidsPassedTo("add") = {}
  /\ CidsPassedTo("update") \cup CidsPassedTo("add")
       \subseteq {r["cell id"] : r \in Range(deduped_df)}

\* A run that handed a record to each of the three handlers.
C30_Witness ==
  /\ pc = "done"
  /\ called = {"delete", "update", "add"}
  /\ \A a \in called : CidsPassedTo(a) # {}

(***************************************************************************)
(* Two runs in a row (SpecRuns): after a call of notion2memrise that has   *)
(* returned, it is called again with the same source on the course the     *)
(* first run left.  fn_ret keeps what the first run did: how it ended, the *)
(* set of its attempts, and the cell ids of the newest records of the      *)
(* course it fetched.                                                      *)
(***************************************************************************)
NewestCids ==
  {r["cell id"] : r \in {x \in Range(memrise_df) : x["date modified"] = Tmax}}

NextRun ==
  /\ pc = "done"
  /\ fn_ret = <<>>
  /\ fn_ret' = <<[ended |-> pc, attempts |-> Range(attempts),
                  newest |-> IF memrise_df = <<>> THEN {} ELSE NewestCids]>>
  /\ pc' = "start"
  /\ notion_df' = <<>>
  /\ deduped_df' = <<>>
  /\ memrise_df' = <<>>
  /\ fetched' = FALSE
  /\ global_res_df' = <<>>
  /\ called' = {}
  /\ deleted_from_notion_df' = <<>>
  /\ update_from_notion_df' = <<>>
  /\ new_from_notion_df' = <<>>
  /\ attempts' = <<>>
  /\ UNCHANGED <<notion_src, levels, persisted, fn_args>>

NextRuns == Next \/ NextRun

SpecRuns == Init /\ [][NextRuns]_vars

FirstRun == fn_ret[1]

SecondRunEnded == fn_ret # <<>> /\ pc = "done"

\* The cell ids whose add attempt failed in the first run.
FailedAdds ==
  {a.cid : a \in {x \in FirstRun.attempts : x.action = "add" /\ x.result # "ok"}}

\* C27 as the specification states it: when the second run has returned,
\* every record of the source whose add attempt failed in the first run has
\* got an add attempt in the second run, whatever else the first run added
\* or updated.
C27_FailedAddRetried ==
  SecondRunEnded => \A cid \in FailedAdds : Attempted("add", cid)

\* C27: when the second run has returned, every record of the source whose
\* add attempt failed in the first run and that is newer than the newest
\* record of the course the second run fetched (or that course was empty)
\* was handed to the add handler and has got an add attempt in the second
\* run.
C27_NewerFailedAddRetried ==
  SecondRunEnded =>
    \A r \in ValidSource :
      (/\ r["cell id"] \in FailedAdds
       /\ (memrise_df = <<>> \/ r["date modified"] > Tmax))
        => /\ r["cell id"] \in CidsPassedTo("add")
           /\ Attempted("add", r["cell id"])

\* The first run added or updated a record and failed to add another one;
\* the second run fetched a course that was not empty and tried that one
\* again.
C27_Witness ==
  /\ SecondRunEnded
  /\ memrise_df # <<>>
  /\ \E x \in FirstRun.attempts : x.action \in {"add", "update"} /\ x.result = "ok"
  /\ \E cid \in FailedAdds : Attempted("add", cid)

FirstRunSucceeded == fn_ret # <<>> /\ \A x \in FirstRun.attempts : x.result = "ok"

\* The first run deleted one of the newest records of the course it fetched.
DeletedNewest ==
  \E x \in FirstRun.attempts : x.action = "delete" /\ x.cid \in FirstRun.newest

\* C28 as the specification states it: when every attempt of the first run
\* succeeded, the second run attempts nothing, also when the first run
\* deleted the newest record of the course.
C28_SecondRunIdle == FirstRunSucceeded => attempts = <<>>

\* C28: when every attempt of the first run succeeded and the first run
\* deleted none of the newest records of the course it fetched, the second
\* run hands no record to a handler and attempts nothing.
C28_SecondRunIdleNewestKept ==
  (FirstRunSucceeded /\ ~DeletedNewest) =>
    /\ attempts = <<>>
    /\ \A a \in {"delete", "update", "add"} : CidsPassedTo(a) = {}

\* The first run updated and added with success; the second run fetched
\* the course, which was not empty, and has returned without an attempt.
C28_Witness ==
  /\ SecondRunEnded
  /\ FirstRunSucceeded
  /\ ~DeletedNewest
  /\ {x.action : x \in FirstRun.attempts} = {"update", "add"}
  /\ memrise_df # <<>>
  /\ attempts = <<>>

====
